---- MODULE Spec2Model ----
(***************************************************************************)
(* Model of google/cloud/bigquery/dbapi/connection.py: the DB-API          *)
(* Connection, its ownership of the two BigQuery clients, the closed flag  *)
(* with the raise_on_closed guard, and the weak registry of cursors.       *)
(*                                                                         *)
(* Init is the state right after Connection.__init__ for every choice of   *)
(* constructor arguments.  cursor() and commit() are single steps.         *)
(* close() is a sequence of steps driven by pc, one per statement of its   *)
(* body, so that the order of its effects, an exception raised half way    *)
(* and the reclamation of cursors during the loop over the WeakSet are     *)
(* all visible.  The caller is single-threaded: it issues a call only      *)
(* when no call is in progress (pc = "idle").  The garbage collector and   *)
(* the owners of cursor references run at any time.                        *)
(***************************************************************************)
EXTENDS Naturals, FiniteSets

\* ---------------------------------------------------------------- bounds
\* cursor() is called at most MaxCursors times on one connection.
MaxCursors == 2

\* ------------------------------------------------------------- constants
\* Python's None.
None == "None"
\* A client object passed in by the caller of the constructor.
Supplied == "supplied"
\* A client object instantiated by the constructor.
Created == "created"
\* The two primary-client objects and the two BQ Storage client objects
\* that can exist.
Clients == {Supplied, Created}
\* Identities of cursor objects, in order of allocation.
CursorIds == 1 .. MaxCursors
\* The exception raised by the guard, identified by its message.
ClosedError == "Operating on a closed connection."
\* The exception the primary client's close() raises when it fails.
ClientError == "client error"
\* The exception the transport channel's close() raises when it fails.
ChannelError == "channel error"
\* Attribute access on None.
AttributeError == "AttributeError"

VARIABLES
    \* constructor inputs: the two arguments and what
    \* client._create_bqstorage_client() returns when it is called
    clientArg, bqstorageArg, factoryResult,
    \* which entry point built the connection
    via,
    \* fields of the Connection
    _client, _bqstorage_client, _owns_client, _owns_bqstorage_client,
    _closed, _cursors_created,
    \* position inside close(), the WeakSet items the loop has yet to visit,
    \* and the loop variable (0: unbound)
    pc, toVisit, cursor_,
    \* cursor objects: number allocated so far, those the caller references,
    \* those not yet reclaimed
    allocated, held, alive,
    \* observations: close() calls received by each primary client, close()
    \* calls received by each BQ Storage client's transport channel, close()
    \* calls each cursor received from the connection, and the cursors the
    \* caller closed itself
    clientCloseCalls, channelCloseCalls, cascadeCloseCalls, callerClosed,
    \* the last call of the caller: method, outcome, cursor returned (0: none)
    lastOp, lastResult, lastCursor,
    \* history: how the last execution of the body of close() went
    \* ("none": the body never ran), and the exception an underlying
    \* client's close() raised inside it ("none": none did)
    closeOutcome, raisedBy

fields == <<_client, _bqstorage_client, _owns_client, _owns_bqstorage_client,
            _closed, _cursors_created>>
inputs == <<clientArg, bqstorageArg, factoryResult, via>>
position == <<pc, toVisit, cursor_>>
objects == <<allocated, held, alive>>
observed == <<clientCloseCalls, channelCloseCalls, cascadeCloseCalls,
              callerClosed>>
last == <<lastOp, lastResult, lastCursor>>
history == <<closeOutcome, raisedBy>>
vars == <<inputs, fields, position, objects, observed, last, history>>

\* ----------------------------------------------------------- construction
\* Variant of __init__: the connection is born closed.
__init__born_closed(client, bqstorage_client, factory) ==
    [ _client |-> IF client = None THEN Created ELSE client,
      _owns_client |-> (client = None),
      _bqstorage_client |->
          IF bqstorage_client = None THEN factory ELSE bqstorage_client,
      _owns_bqstorage_client |->
          IF bqstorage_client = None THEN factory # None ELSE FALSE,
      _closed |-> TRUE,
      _cursors_created |-> {} ]

\* Variant of __init__: a BQ Storage client the factory failed to create
\* counts as owned.
__init__owns_failed(client, bqstorage_client, factory) ==
    [ _client |-> IF client = None THEN Created ELSE client,
      _owns_client |-> (client = None),
      _bqstorage_client |->
          IF bqstorage_client = None THEN factory ELSE bqstorage_client,
      _owns_bqstorage_client |-> (bqstorage_client = None),
      _closed |-> FALSE,
      _cursors_created |-> {} ]

\* Connection.__init__(client, bqstorage_client); factory is the value
\* client._create_bqstorage_client() returns (None when instantiation fails).
__init__(client, bqstorage_client, factory) ==
    [ _client |-> IF client = None THEN Created ELSE client,
      _owns_client |-> (client = None),
      _bqstorage_client |->
          IF bqstorage_client = None THEN factory ELSE bqstorage_client,
      _owns_bqstorage_client |->
          IF bqstorage_client = None THEN factory # None ELSE FALSE,
      _closed |-> FALSE,
      _cursors_created |-> {} ]

\* Variant of connect: the BQ Storage client argument is not passed on.
connect_drops_bqstorage(client, bqstorage_client, factory) ==
    __init__(client, None, factory)

\* connect(client, bqstorage_client)
connect(client, bqstorage_client, factory) ==
    __init__(client, bqstorage_client, factory)

Init ==
    /\ clientArg \in {None, Supplied}
    /\ bqstorageArg \in {None, Supplied}
    /\ factoryResult \in {None, Created}
    /\ via \in {"Connection", "connect"}
    /\ LET self == IF via = "connect"
                   THEN connect(clientArg, bqstorageArg, factoryResult)
                   ELSE __init__(clientArg, bqstorageArg, factoryResult)
       IN  /\ _client = self._client
           /\ _bqstorage_client = self._bqstorage_client
           /\ _owns_client = self._owns_client
           /\ _owns_bqstorage_client = self._owns_bqstorage_client
           /\ _closed = self._closed
           /\ _cursors_created = self._cursors_created
    /\ pc = "idle"
    /\ toVisit = {}
    /\ cursor_ = 0
    /\ allocated = 0
    /\ held = {}
    /\ alive = {}
    /\ clientCloseCalls = [c \in Clients |-> 0]
    /\ channelCloseCalls = [c \in Clients |-> 0]
    /\ cascadeCloseCalls = [c \in CursorIds |-> 0]
    /\ callerClosed = {}
    /\ lastOp = "none"
    /\ lastResult = "none"
    /\ lastCursor = 0
    /\ closeOutcome = "none"
    /\ raisedBy = "none"

\* ------------------------------------------------------------------ guard
\* Variant of PublicMethods: close() escapes the decoration.
PublicMethods_no_close == {"commit", "cursor"}

\* Variant of PublicMethods: cursor() escapes the decoration.
PublicMethods_no_cursor == {"close", "commit"}

\* The public methods of the class the decorator is applied to.
PublicMethods == {"close", "commit", "cursor"}

\* _helpers.raise_on_closed: a decorated method raises when the closed
\* attribute is true at call time, before its body runs.
with_closed_check(method) == method \in PublicMethods /\ _closed

\* A call rejected by the guard: the exception is its only effect.
Rejected(method) ==
    /\ lastOp' = method
    /\ lastResult' = ClosedError
    /\ lastCursor' = 0
    /\ UNCHANGED <<inputs, fields, position, objects, observed, history>>

\* ----------------------------------------------------------------- commit
\* Variant of commit: an open connection refuses it.
commit_not_supported ==
    /\ pc = "idle"
    /\ IF with_closed_check("commit")
       THEN Rejected("commit")
       ELSE /\ lastOp' = "commit"
            /\ lastResult' = "NotSupportedError"
            /\ lastCursor' = 0
            /\ UNCHANGED <<inputs, fields, position, objects, observed,
                           history>>

commit ==
    /\ pc = "idle"
    /\ IF with_closed_check("commit")
       THEN Rejected("commit")
       ELSE /\ lastOp' = "commit"
            /\ lastResult' = "ok"
            /\ lastCursor' = 0
            /\ UNCHANGED <<inputs, fields, position, objects, observed,
                           history>>

\* ----------------------------------------------------------------- cursor
\* Variant of cursor: the new cursor is returned without being registered.
cursor_unregistered ==
    /\ pc = "idle"
    /\ IF with_closed_check("cursor")
       THEN Rejected("cursor")
       ELSE /\ allocated < MaxCursors
            /\ LET new_cursor == allocated + 1
               IN  /\ allocated' = new_cursor
                   /\ alive' = alive \cup {new_cursor}
                   /\ held' = held \cup {new_cursor}
                   /\ lastCursor' = new_cursor
            /\ lastOp' = "cursor"
            /\ lastResult' = "ok"
            /\ UNCHANGED <<inputs, fields, position, observed, history>>

\* cursor(): new_cursor = cursor.Cursor(self) allocates a fresh object, the
\* WeakSet takes a weak reference to it, the caller receives the only
\* strong one.
cursor ==
    /\ pc = "idle"
    /\ IF with_closed_check("cursor")
       THEN Rejected("cursor")
       ELSE /\ allocated < MaxCursors
            /\ LET new_cursor == allocated + 1
               IN  /\ allocated' = new_cursor
                   /\ alive' = alive \cup {new_cursor}
                   /\ _cursors_created' = _cursors_created \cup {new_cursor}
                   /\ held' = held \cup {new_cursor}
                   /\ lastCursor' = new_cursor
            /\ lastOp' = "cursor"
            /\ lastResult' = "ok"
            /\ UNCHANGED <<inputs, _client, _bqstorage_client, _owns_client,
                           _owns_bqstorage_client, _closed, position,
                           observed, history>>

\* ------------------------------------------------------------------ close
\* Variant of close: the flag is not set.
close_no_flag ==
    /\ pc = "idle"
    /\ IF with_closed_check("close")
       THEN Rejected("close")
       ELSE /\ pc' = "close_client"
            /\ lastOp' = "close"
            /\ lastResult' = "running"
            /\ lastCursor' = 0
            /\ closeOutcome' = "running"
            /\ UNCHANGED <<inputs, fields, toVisit, cursor_, objects,
                           observed, raisedBy>>

\* Variant of close: the loop over the cursors comes right after the flag,
\* ahead of the clients.
close_cursors_before_clients ==
    /\ pc = "idle"
    /\ IF with_closed_check("close")
       THEN Rejected("close")
       ELSE /\ _closed' = TRUE
            /\ pc' = "close_iter"
            /\ lastOp' = "close"
            /\ lastResult' = "running"
            /\ lastCursor' = 0
            /\ closeOutcome' = "running"
            /\ UNCHANGED <<inputs, _client, _bqstorage_client, _owns_client,
                           _owns_bqstorage_client, _cursors_created, toVisit,
                           cursor_, objects, observed, raisedBy>>

\* The call and the first statement: self._closed = True.
close ==
    /\ pc = "idle"
    /\ IF with_closed_check("close")
       THEN Rejected("close")
       ELSE /\ _closed' = TRUE
            /\ pc' = "close_client"
            /\ lastOp' = "close"
            /\ lastResult' = "running"
            /\ lastCursor' = 0
            /\ closeOutcome' = "running"
            /\ UNCHANGED <<inputs, _client, _bqstorage_client, _owns_client,
                           _owns_bqstorage_client, _cursors_created, toVisit,
                           cursor_, objects, observed, raisedBy>>

\* An exception leaves close(): the call is over, its locals are gone.
Raise(exc) ==
    /\ pc' = "idle"
    /\ toVisit' = {}
    /\ cursor_' = 0
    /\ lastResult' = exc
    /\ closeOutcome' = exc
    /\ raisedBy' = IF exc \in {ClientError, ChannelError}
                   THEN exc ELSE raisedBy

\* Variant of close_client: the primary client is closed whoever owns it.
close_client_unconditional ==
    /\ pc = "close_client"
    /\ clientCloseCalls' = [clientCloseCalls EXCEPT ![_client] = @ + 1]
    /\ \E raises \in BOOLEAN :
          IF raises
          THEN Raise(ClientError)
          ELSE /\ pc' = "close_bqstorage"
               /\ UNCHANGED <<toVisit, cursor_, lastResult, history>>
    /\ UNCHANGED <<inputs, fields, objects, channelCloseCalls,
                   cascadeCloseCalls, callerClosed, lastOp, lastCursor>>

\* Variant of close_client: an exception of the primary client's close()
\* is caught and close() goes on.
close_client_swallows ==
    /\ pc = "close_client"
    /\ IF _owns_client
       THEN /\ clientCloseCalls' =
                  [clientCloseCalls EXCEPT ![_client] = @ + 1]
            /\ \E raises \in BOOLEAN :
                  raisedBy' = IF raises THEN ClientError ELSE raisedBy
       ELSE UNCHANGED <<clientCloseCalls, raisedBy>>
    /\ pc' = "close_bqstorage"
    /\ UNCHANGED <<inputs, fields, objects, channelCloseCalls, toVisit,
                   cursor_, cascadeCloseCalls, callerClosed, last,
                   closeOutcome>>

\* if self._owns_client: self._client.close()
close_client ==
    /\ pc = "close_client"
    /\ IF _owns_client
       THEN /\ clientCloseCalls' =
                  [clientCloseCalls EXCEPT ![_client] = @ + 1]
            /\ \E raises \in BOOLEAN :
                  IF raises
                  THEN Raise(ClientError)
                  ELSE /\ pc' = "close_bqstorage"
                       /\ UNCHANGED <<toVisit, cursor_, lastResult,
                                      history>>
       ELSE /\ pc' = "close_bqstorage"
            /\ UNCHANGED <<clientCloseCalls, toVisit, cursor_, lastResult,
                           history>>
    /\ UNCHANGED <<inputs, fields, objects, channelCloseCalls,
                   cascadeCloseCalls, callerClosed, lastOp, lastCursor>>

\* Variant of close_bqstorage: the channel is closed whenever there is a
\* BQ Storage client, owned or not.
close_bqstorage_if_present ==
    /\ pc = "close_bqstorage"
    /\ IF _bqstorage_client # None
       THEN /\ channelCloseCalls' =
                  [channelCloseCalls EXCEPT ![_bqstorage_client] = @ + 1]
            /\ \E raises \in BOOLEAN :
                  IF raises
                  THEN Raise(ChannelError)
                  ELSE /\ pc' = "close_iter"
                       /\ UNCHANGED <<toVisit, cursor_, lastResult,
                                      history>>
       ELSE /\ pc' = "close_iter"
            /\ UNCHANGED <<channelCloseCalls, toVisit, cursor_, lastResult,
                           history>>
    /\ UNCHANGED <<inputs, fields, objects, clientCloseCalls,
                   cascadeCloseCalls, callerClosed, lastOp, lastCursor>>

\* if self._owns_bqstorage_client:
\*     self._bqstorage_client.transport.channel.close()
close_bqstorage ==
    /\ pc = "close_bqstorage"
    /\ IF _owns_bqstorage_client
       THEN IF _bqstorage_client = None
            THEN /\ Raise(AttributeError)
                 /\ UNCHANGED channelCloseCalls
            ELSE /\ channelCloseCalls' =
                       [channelCloseCalls EXCEPT ![_bqstorage_client] = @ + 1]
                 /\ \E raises \in BOOLEAN :
                       IF raises
                       THEN Raise(ChannelError)
                       ELSE /\ pc' = "close_iter"
                            /\ UNCHANGED <<toVisit, cursor_, lastResult,
                                           history>>
       ELSE /\ pc' = "close_iter"
            /\ UNCHANGED <<channelCloseCalls, toVisit, cursor_, lastResult,
                           history>>
    /\ UNCHANGED <<inputs, fields, objects, clientCloseCalls,
                   cascadeCloseCalls, callerClosed, lastOp, lastCursor>>

\* for cursor_ in self._cursors_created: the iterator is created over the
\* references the WeakSet holds at this moment.
close_iter ==
    /\ pc = "close_iter"
    /\ toVisit' = _cursors_created
    /\ pc' = "close_cursors"
    /\ UNCHANGED <<inputs, fields, cursor_, objects, observed, last,
                   history>>

\* Variant of close_cursors: the loop ends after the first cursor closed.
close_cursors_first_only ==
    /\ pc = "close_cursors"
    /\ IF toVisit = {}
       THEN /\ pc' = "idle"
            /\ cursor_' = 0
            /\ lastResult' = "ok"
            /\ closeOutcome' = "ok"
            /\ UNCHANGED <<toVisit, cascadeCloseCalls, raisedBy>>
       ELSE \E ref \in toVisit :
            IF ref \in alive
            THEN /\ toVisit' = {}
                 /\ cursor_' = ref
                 /\ cascadeCloseCalls' =
                       [cascadeCloseCalls EXCEPT ![ref] = @ + 1]
                 /\ UNCHANGED <<pc, lastResult, history>>
            ELSE /\ toVisit' = toVisit \ {ref}
                 /\ UNCHANGED <<pc, lastResult, history, cursor_,
                                cascadeCloseCalls>>
    /\ UNCHANGED <<inputs, fields, objects, clientCloseCalls,
                   channelCloseCalls, callerClosed, lastOp, lastCursor>>

\* Variant of close_cursors: a reference whose cursor is gone is not
\* skipped, and close() is called on the None it yields.
close_cursors_unfiltered ==
    /\ pc = "close_cursors"
    /\ IF toVisit = {}
       THEN /\ pc' = "idle"
            /\ cursor_' = 0
            /\ lastResult' = "ok"
            /\ closeOutcome' = "ok"
            /\ UNCHANGED <<toVisit, cascadeCloseCalls, raisedBy>>
       ELSE \E ref \in toVisit :
            IF ref \in alive
            THEN /\ toVisit' = toVisit \ {ref}
                 /\ cursor_' = ref
                 /\ cascadeCloseCalls' =
                       [cascadeCloseCalls EXCEPT ![ref] = @ + 1]
                 /\ UNCHANGED <<pc, lastResult, history>>
            ELSE /\ Raise(AttributeError)
                 /\ UNCHANGED cascadeCloseCalls
    /\ UNCHANGED <<inputs, fields, objects, clientCloseCalls,
                   channelCloseCalls, callerClosed, lastOp, lastCursor>>

\* Variant of close_cursors: a cursor the caller has closed is passed over.
close_cursors_skip_closed ==
    /\ pc = "close_cursors"
    /\ IF toVisit = {}
       THEN /\ pc' = "idle"
            /\ cursor_' = 0
            /\ lastResult' = "ok"
            /\ closeOutcome' = "ok"
            /\ UNCHANGED <<toVisit, cascadeCloseCalls, raisedBy>>
       ELSE \E ref \in toVisit :
            /\ toVisit' = toVisit \ {ref}
            /\ IF ref \in alive
               THEN /\ cursor_' = ref
                    /\ cascadeCloseCalls' =
                          IF ref \in callerClosed
                          THEN cascadeCloseCalls
                          ELSE [cascadeCloseCalls EXCEPT ![ref] = @ + 1]
               ELSE UNCHANGED <<cursor_, cascadeCloseCalls>>
            /\ UNCHANGED <<pc, lastResult, history>>
    /\ UNCHANGED <<inputs, fields, objects, clientCloseCalls,
                   channelCloseCalls, callerClosed, lastOp, lastCursor>>

\* One advance of the loop.  The WeakSet iterator skips a reference whose
\* cursor has been reclaimed since the loop began; a live cursor is bound
\* to cursor_ and receives close().  When no reference is left the loop
\* ends and close() returns.
close_cursors ==
    /\ pc = "close_cursors"
    /\ IF toVisit = {}
       THEN /\ pc' = "idle"
            /\ cursor_' = 0
            /\ lastResult' = "ok"
            /\ closeOutcome' = "ok"
            /\ UNCHANGED <<toVisit, cascadeCloseCalls, raisedBy>>
       ELSE \E ref \in toVisit :
            /\ toVisit' = toVisit \ {ref}
            /\ IF ref \in alive
               THEN /\ cursor_' = ref
                    /\ cascadeCloseCalls' =
                          [cascadeCloseCalls EXCEPT ![ref] = @ + 1]
               ELSE UNCHANGED <<cursor_, cascadeCloseCalls>>
            /\ UNCHANGED <<pc, lastResult, history>>
    /\ UNCHANGED <<inputs, fields, objects, clientCloseCalls,
                   channelCloseCalls, callerClosed, lastOp, lastCursor>>

\* ------------------------------------------------------------ environment
\* The caller closes a cursor it references and has not closed yet.
CursorClose(c) ==
    /\ pc = "idle"
    /\ c \in held
    /\ c \notin callerClosed
    /\ callerClosed' = callerClosed \cup {c}
    /\ UNCHANGED <<inputs, fields, position, objects, clientCloseCalls,
                   channelCloseCalls, cascadeCloseCalls, last, history>>

\* The caller drops its reference to a cursor.
DropRef(c) ==
    /\ c \in held
    /\ held' = held \ {c}
    /\ UNCHANGED <<inputs, fields, position, allocated, alive, observed,
                   last, history>>

\* A cursor with no strong reference left is reclaimed; the weak reference
\* callback takes it out of the WeakSet.  The loop variable of close() is a
\* strong reference.
Reclaim(c) ==
    /\ c \in alive
    /\ c \notin held
    /\ c # cursor_
    /\ alive' = alive \ {c}
    /\ _cursors_created' = _cursors_created \ {c}
    /\ UNCHANGED <<inputs, _client, _bqstorage_client, _owns_client,
                   _owns_bqstorage_client, _closed, position, allocated,
                   held, observed, last, history>>

Next ==
    \/ commit
    \/ cursor
    \/ close
    \/ close_client
    \/ close_bqstorage
    \/ close_iter
    \/ close_cursors
    \/ \E c \in CursorIds : CursorClose(c)
    \/ \E c \in CursorIds : DropRef(c)
    \/ \E c \in CursorIds : Reclaim(c)

Spec == Init /\ [][Next]_vars

\* ------------------------------------------------------------------ types
TypeOK ==
    /\ _client \in Clients
    /\ _bqstorage_client \in Clients \cup {None}
    /\ _owns_client \in BOOLEAN
    /\ _owns_bqstorage_client \in BOOLEAN
    /\ _closed \in BOOLEAN
    /\ _cursors_created \subseteq alive
    /\ held \subseteq alive
    /\ alive \subseteq 1 .. allocated
    /\ allocated \in 0 .. MaxCursors
    /\ toVisit \subseteq 1 .. allocated
    /\ cursor_ \in 0 .. allocated
    /\ pc \in {"idle", "close_client", "close_bqstorage", "close_iter",
               "close_cursors"}

\* ----------------------------------------------------------------- claims
\* A call of the caller: one of the three public methods.
Call == close \/ commit \/ cursor

\* The body of close() has run and the call is over.
CloseOver == closeOutcome \notin {"none", "running"} /\ pc = "idle"

\* C1: a primary client supplied by the caller never receives close() from
\* the connection, and a BQ Storage client supplied by the caller never has
\* its transport channel closed by the connection.
C1_SuppliedClientsNeverClosed ==
    /\ clientCloseCalls[Supplied] = 0
    /\ channelCloseCalls[Supplied] = 0
    /\ (~_owns_client => clientCloseCalls[_client] = 0)
    /\ (~_owns_bqstorage_client /\ _bqstorage_client # None
           => channelCloseCalls[_bqstorage_client] = 0)

\* C1 witness: both clients were supplied, a cursor was created and close()
\* ran to its end, closing that cursor.
C1_Witness ==
    /\ clientArg = Supplied
    /\ bqstorageArg = Supplied
    /\ closeOutcome = "ok"
    /\ \E c \in CursorIds : cascadeCloseCalls[c] = 1

\* C2: once close() has been called closed is true, and every later call of
\* cursor(), commit() or close() fails with the one closed-connection error.
C2_ClosedThenEveryCallFails ==
    /\ [](closeOutcome # "none" => _closed)
    /\ [][(closeOutcome # "none" /\ Call)
            => (lastResult' = ClosedError /\ _closed')]_vars

\* C2 witness: close() is over and a later commit() was rejected.
C2_Witness ==
    /\ CloseOver
    /\ lastOp = "commit"
    /\ lastResult = ClosedError

\* C3: a guarded call made while closed is true does nothing but raise: no
\* client, channel or cursor receives close(), no cursor is created or
\* registered, no field changes.
C3_ClosedCallDoesNoWork ==
    [][(_closed /\ Call)
        => (/\ lastResult' = ClosedError
            /\ pc' = "idle"
            /\ UNCHANGED <<fields, position, objects, observed>>)]_vars

\* C3 witness: a connection owning both clients was closed with a live
\* cursor, and a second close() was then rejected.
C3_Witness ==
    /\ _owns_client
    /\ _owns_bqstorage_client
    /\ closeOutcome = "ok"
    /\ lastOp = "close"
    /\ lastResult = ClosedError
    /\ clientCloseCalls[Created] = 1
    /\ channelCloseCalls[Created] = 1
    /\ \E c \in alive : cascadeCloseCalls[c] = 1

\* C4: closed is false right after construction, and once true it stays
\* true through every step.
C4_ClosedMonotonic ==
    /\ ~_closed
    /\ [][_closed => _closed']_vars

\* C4 witness: the connection is closed and calls of all kinds followed.
C4_Witness ==
    /\ _closed
    /\ CloseOver
    /\ lastOp = "cursor"
    /\ lastResult = ClosedError

\* close() returned normally.
CloseReturned == closeOutcome = "ok" /\ pc = "idle"

\* All cursor objects created so far.
Earlier == 1 .. allocated

C6_OwnershipFlags ==
    /\ _owns_client = (clientArg = None)
    /\ _owns_bqstorage_client =
          (bqstorageArg = None /\ factoryResult # None)
    /\ (bqstorageArg = None /\ factoryResult = None
          => ~_owns_bqstorage_client /\ _bqstorage_client = None)
    /\ \A a, b \in BOOLEAN :
          \E c \in {None, Supplied}, q \in {None, Supplied},
             f \in {None, Created} :
             LET self == __init__(c, q, f)
             IN  self._owns_client = a /\ self._owns_bqstorage_client = b

\* C6 witness: built with no arguments while the factory fails: the primary
\* client is owned, the BQ Storage client is None and not owned.
C6_Witness ==
    /\ clientArg = None
    /\ bqstorageArg = None
    /\ factoryResult = None
    /\ _owns_client
    /\ ~_owns_bqstorage_client
    /\ _bqstorage_client = None
    /\ lastOp = "none"

\* C7: for a connection built with no arguments, once close() has got past
\* its primary client closed is true and the created primary client has
\* received exactly one close(); it never receives a second one.
C7_OwnedClientClosedOnce ==
    (clientArg = None /\ bqstorageArg = None)
        => /\ clientCloseCalls[Created] <= 1
           /\ (closeOutcome # "none" /\ pc # "close_client"
                 => _closed /\ clientCloseCalls[Created] = 1)

\* C7 witness: connect() with no arguments, cursor(), close(), and then a
\* further close(): still one close() on the primary client.
C7_Witness ==
    /\ via = "connect"
    /\ clientArg = None
    /\ bqstorageArg = None
    /\ allocated >= 1
    /\ closeOutcome = "ok"
    /\ lastOp = "close"
    /\ lastResult = ClosedError
    /\ _closed
    /\ clientCloseCalls[Created] = 1

\* C8: the loop of close() over the registry never raises, whatever is
\* reclaimed before or during it: it can only go on or return normally;
\* a cursor receives close() from the connection only while alive; and
\* when close() has returned, every cursor still alive was closed once.
C8_ReclaimedCursorsHarmless ==
    /\ [][pc = "close_cursors"
            => \/ pc' = "close_cursors"
               \/ pc' = "idle" /\ closeOutcome' = "ok"]_vars
    /\ [][\A c \in CursorIds :
            cascadeCloseCalls'[c] # cascadeCloseCalls[c]
                => c \in alive /\ c \in alive']_vars
    /\ [](CloseReturned => \A c \in alive : cascadeCloseCalls[c] = 1)

\* C8 witness: close() returned normally although one cursor had been
\* reclaimed, which got no close(), while a live one was closed.
C8_Witness ==
    /\ CloseReturned
    /\ \E c \in Earlier : c \notin alive /\ cascadeCloseCalls[c] = 0
    /\ \E d \in alive : cascadeCloseCalls[d] = 1

\* C9: commit() on an open connection returns normally and changes nothing:
\* not the flag, the clients, the ownership flags, the registry, nor any
\* count of close() calls.
C9_CommitIsNoOp ==
    [][(~_closed /\ commit)
        => (/\ lastResult' = "ok"
            /\ UNCHANGED <<inputs, fields, position, objects, observed,
                           history>>)]_vars

\* C9 witness: commit() returned on an open connection that owns its
\* primary client and has a registered cursor.
C9_Witness ==
    /\ lastOp = "commit"
    /\ lastResult = "ok"
    /\ ~_closed
    /\ _owns_client
    /\ _cursors_created # {}

\* C10: the cursor that cursor() returns is in the registry when it is
\* returned, and every cursor the caller holds is in the registry.
C10_ReturnedCursorsRegistered ==
    /\ [](held \subseteq _cursors_created)
    /\ [][(~_closed /\ cursor) => lastCursor' \in _cursors_created']_vars

\* C10 witness: a second cursor() has just returned a cursor the caller
\* holds and the registry contains.
C10_Witness ==
    /\ lastOp = "cursor"
    /\ lastResult = "ok"
    /\ lastCursor = 2
    /\ lastCursor \in held
    /\ lastCursor \in _cursors_created

\* What Connection(client, bqstorage_client) yields for the arguments this
\* connection was built from.
Direct == __init__(clientArg, bqstorageArg, factoryResult)

\* C11: a connection built by connect() has, for every combination of
\* arguments, the clients and ownership flags that Connection() gives for
\* the same arguments, starts open with an empty registry, and keeps those
\* clients and flags under every sequence of operations.
C11_ConnectSameAsConnection ==
    via = "connect"
        => /\ _client = Direct._client
           /\ _bqstorage_client = Direct._bqstorage_client
           /\ _owns_client = Direct._owns_client
           /\ _owns_bqstorage_client = Direct._owns_bqstorage_client
           /\ (lastOp = "none" /\ allocated = 0
                 => /\ _closed = Direct._closed
                    /\ ~_closed
                    /\ _cursors_created = Direct._cursors_created
                    /\ _cursors_created = {})

\* C11 witness: connect() was given a primary client and no BQ Storage
\* client; the connection owns only the latter, and was used and closed.
C11_Witness ==
    /\ via = "connect"
    /\ clientArg = Supplied
    /\ bqstorageArg = None
    /\ factoryResult = Created
    /\ ~_owns_client
    /\ _owns_bqstorage_client
    /\ allocated = 1
    /\ CloseReturned

\* close() calls received by transport channels, whoever they belong to.
ChannelCloses == channelCloseCalls[Created] + channelCloseCalls[Supplied]

FailedCreation == bqstorageArg = None /\ factoryResult = None

C14_ClientErrorsPropagate ==
    /\ [](raisedBy # "none" => closeOutcome = raisedBy)
    /\ [](raisedBy = ClientError => clientCloseCalls[_client] = 1)
    /\ [](raisedBy = ChannelError
            => channelCloseCalls[_bqstorage_client] = 1)
    /\ [][raisedBy' # raisedBy
            => (/\ lastOp' = "close"
                /\ lastResult' = raisedBy'
                /\ lastResult' # ClosedError
                /\ pc' = "idle")]_vars

\* C14 witness: the owned channel's close() raised and close() ended with
\* that exception.
C14_Witness ==
    /\ raisedBy = ChannelError
    /\ lastOp = "close"
    /\ lastResult = ChannelError
    /\ closeOutcome = ChannelError
    /\ pc = "idle"

\* C15: once the owned primary client's close() has raised inside close(),
\* the connection is closed, and in every later state no transport channel
\* has been closed and no cursor has received close() from the connection.
C15_FailedCloseLeavesRestOpen ==
    raisedBy = ClientError
        => /\ _closed
           /\ ChannelCloses = 0
           /\ \A c \in CursorIds : cascadeCloseCalls[c] = 0

\* C15 witness: the primary client's close() raised on a connection that
\* owns its BQ Storage client and has a live cursor; a further close() was
\* rejected; channel and cursor are still unclosed.
C15_Witness ==
    /\ raisedBy = ClientError
    /\ _owns_bqstorage_client
    /\ alive # {}
    /\ lastOp = "close"
    /\ lastResult = ClosedError
    /\ channelCloseCalls[Created] = 0
    /\ \A c \in alive : cascadeCloseCalls[c] = 0

\* C16: whenever a client or channel has received close() the flag is
\* already set; whenever the channel has received close() the owned primary
\* client has received its own; whenever a cursor has received close()
\* from the connection the flag is set and each owned client has received
\* its close().
C16_CloseOrder ==
    /\ (clientCloseCalls[_client] > 0 => _closed)
    /\ (ChannelCloses > 0
          => /\ _closed
             /\ (_owns_client => clientCloseCalls[_client] = 1))
    /\ ((\E c \in CursorIds : cascadeCloseCalls[c] > 0)
          => /\ _closed
             /\ (_owns_client => clientCloseCalls[_client] = 1)
             /\ (_owns_bqstorage_client
                   => channelCloseCalls[_bqstorage_client] = 1))

\* C16 witness: close() is inside its loop on a connection owning both
\* clients; the cursor just closed sees the flag set and both closed.
C16_Witness ==
    /\ pc = "close_cursors"
    /\ cursor_ # 0
    /\ cascadeCloseCalls[cursor_] = 1
    /\ _owns_client
    /\ _owns_bqstorage_client
    /\ _closed
    /\ clientCloseCalls[Created] = 1
    /\ channelCloseCalls[Created] = 1

\* C17: a cursor leaves the registry only when it is reclaimed; a cursor
\* the caller closed and still holds stays registered; and a close() that
\* returns normally has called close() on every such cursor.
C17_ClosedCursorsStayRegistered ==
    /\ [][\A c \in _cursors_created :
            c \notin _cursors_created' => (c \in alive /\ c \notin alive')]_vars
    /\ [](callerClosed \cap held \subseteq _cursors_created)
    /\ [](CloseReturned
            => \A c \in callerClosed \cap alive : cascadeCloseCalls[c] = 1)

\* C17 witness: the caller closed a cursor and kept it; close() returned
\* having called close() on it, and it is still registered.
C17_Witness ==
    /\ CloseReturned
    /\ \E c \in callerClosed \cap held :
          /\ c \in _cursors_created
          /\ cascadeCloseCalls[c] = 1
====
